---- MODULE Spec2Model ----
(***************************************************************************)
(* Job discovery pipeline of TeamV5: the TTL caches, the LinkedIn listing  *)
(* scraper, the job-details fetcher and the filtered search route          *)
(* (services/scrape_service.py, routes/job_routes.py), the skill matcher   *)
(* (services/match_service.py) and the summarizer retry ladder             *)
(* (services/llm_service.py).                                              *)
(*                                                                         *)
(* Text the code inspects character by character (descriptions, skills,    *)
(* hrefs, URLs, cache keys) is a sequence of one-character strings; other  *)
(* text is a string.  Python's None is None where the other values are     *)
(* strings, and Nil where they are sequences or records: an optional       *)
(* record or sequence x is Nil or Some(x).                                 *)
(***************************************************************************)
EXTENDS Integers, Sequences, FiniteSets, TLC

None == "None"
Nil == <<>>
Some(x) == <<x>>

\* All sequences over S of length at most n.
SeqsUpTo(S, n) == UNION {[1..k -> S] : k \in 0..n}

Min(a, b) == IF a <= b THEN a ELSE b

(***************************************************************************)
(* services/match_service.py                                               *)
(***************************************************************************)

VARIABLE mt        \* the job_matches_skills invocation: arguments, loop, result

\* Longest description and longest skill list the matcher is run on.
MaxDescLen == 3
MaxSkills == 2

\* Characters the matcher is exercised on.
UpperCase == {"A"}
LowerCase == {"a"}
Whitespace == {" "}

\* str.lower() on one character.
Lower(c) == IF c = "A" THEN "a" ELSE c

\* text.lower()
LowerText(text) == [i \in 1..Len(text) |-> Lower(text[i])]

\* The character class [A-Za-z0-9\+\#] of the tokenizer.
TokenChar(c) == c \in UpperCase \cup LowerCase \cup {"0", "1", "+", "#"}

\* str.strip(): drop leading and trailing whitespace.
RECURSIVE LStrip(_)
LStrip(s) == IF s # <<>> /\ Head(s) \in Whitespace THEN LStrip(Tail(s)) ELSE s

RECURSIVE RStrip(_)
RStrip(s) ==
    IF s # <<>> /\ s[Len(s)] \in Whitespace THEN RStrip(SubSeq(s, 1, Len(s) - 1)) ELSE s

Strip(s) == RStrip(LStrip(s))

\* re.findall(r"[A-Za-z0-9\+\#]+", s): scan left to right, cur is the run being
\* read, acc the runs found so far.
RECURSIVE FindAll(_, _, _)
FindAll(s, cur, acc) ==
    IF s = <<>>
    THEN IF cur = <<>> THEN acc ELSE Append(acc, cur)
    ELSE IF TokenChar(Head(s))
         THEN FindAll(Tail(s), Append(cur, Head(s)), acc)
         ELSE FindAll(Tail(s), <<>>, IF cur = <<>> THEN acc ELSE Append(acc, cur))

\* A tokenizer that splits on whitespace only.
tokenize_whitespace(text) ==
    LET low == LowerText(text)
        RECURSIVE Split(_, _, _)
        Split(s, cur, acc) ==
            IF s = <<>>
            THEN IF cur = <<>> THEN acc ELSE Append(acc, cur)
            ELSE IF Head(s) \notin Whitespace
                 THEN Split(Tail(s), Append(cur, Head(s)), acc)
                 ELSE Split(Tail(s), <<>>, IF cur = <<>> THEN acc ELSE Append(acc, cur))
    IN  Split(low, <<>>, <<>>)

tokenize(text) == FindAll(LowerText(text), <<>>, <<>>)

Range(s) == {s[i] : i \in 1..Len(s)}

\* skill.lower().strip()
skill_clean(skill) == Strip(LowerText(skill))

\* One iteration of the skill loop: TRUE when matched is incremented.
skill_hit(description, skill) ==
    LET token_set == Range(tokenize(description))
        sc == skill_clean(skill)
    IN  sc # <<>> /\ sc \in token_set

\* The per-skill outcomes of the loop, in list order (the loop is not
\* reached when "not description": nothing is matched).
skill_hits(description, skills) ==
    [i \in 1..Len(skills) |-> description # <<>> /\ skill_hit(description, skills[i])]

\* matched after the loop.
matched_count(description, skills) ==
    Cardinality({i \in 1..Len(skills) : skill_hits(description, skills)[i]})

\* A threshold is the fraction num/den, den > 0; 0.25 is the default.
DefaultThreshold == [num |-> 1, den |-> 4]

job_matches_skills(description, skills, threshold) ==
    IF description = <<>>
    THEN FALSE
    ELSE LET matched == matched_count(description, skills)
         IN  IF skills # <<>>
             THEN matched * threshold.den >= threshold.num * Len(skills)
             ELSE 0 >= threshold.num

\* The inputs of the matcher runs: descriptions over MatchChars, skill
\* lists over SkillPool, thresholds as fractions.
MatchChars == {"a", "A", "+", " ", "-"}
SkillPool ==
    {<<>>, <<"a">>, <<" ", "A">>, <<"a", "+">>, <<"a", " ", "a">>, <<"a", "-", "a">>}
Thresholds == {[num |-> 1, den |-> 4], [num |-> 1, den |-> 2], [num |-> 1, den |-> 1]}

MatchInit ==
    mt \in [pc : {"ready"}, description : SeqsUpTo(MatchChars, MaxDescLen),
            skills : SeqsUpTo(SkillPool, MaxSkills), threshold : {DefaultThreshold},
            hits : {<<>>}, result : {FALSE}]

\* job_matches_skills(description, skills, threshold)
MatchCall(threshold) ==
    /\ mt.pc = "ready"
    /\ mt' = [mt EXCEPT !.pc = "done", !.threshold = threshold,
                        !.hits = skill_hits(mt.description, mt.skills),
                        !.result = job_matches_skills(mt.description, mt.skills,
                                                      threshold)]

MatchIdle ==
    mt = [pc |-> "idle", description |-> <<>>, skills |-> <<>>,
          threshold |-> DefaultThreshold, hits |-> <<>>, result |-> FALSE]

(***************************************************************************)
(* services/llm_service.py: summarize_job                                  *)
(*                                                                         *)
(* A description is represented by its length: a slice description[:n] of  *)
(* a text of length d is its prefix of length Min(d, n), and a prefix is   *)
(* determined by its length.                                               *)
(***************************************************************************)

VARIABLE sm        \* the summarize_job invocation: locals, call log, result

HardCap == 3000

\* A ladder whose tiers are not in descending order.
limits_unsorted == <<2500, 1200, 1800, 800, 500>>

\* progressively smaller text chunks
limits == <<2500, 1800, 1200, 800, 500>>

NoDescription == "No description available."
Unavailable == "AI summary unavailable."
Fallback == "AI summary could not be generated due to context window limits."

\* Outcomes of one llm.create_chat_completion call: it raises (kind "raise";
\* a context window overflow is one such error), it returns a response that
\* has no usable choices[0] (kind "malformed": the subscript or the .get
\* raises inside the try), or it returns choices[0] with the given message
\* content and text.
Responses ==
    {[kind |-> "raise", content |-> None, text |-> None],
     [kind |-> "malformed", content |-> None, text |-> None]}
    \cup [kind : {"ok"}, content : {None, "", "summary A"}, text : {None, "", "summary B"}]

DescLens == {0, 1, 500, 501, 1800, 2500, 2501, 3000, 3001}
SummSkills == {<<>>, <<"java", "sql">>}

Truthy(x) == x # None /\ x # ""

\* The except clause that lets a malformed response escape to the caller.
attempt_caught_overflow_only(r) == r.kind = "raise"

\* try ... except Exception: the attempt ends in the except clause.
attempt_caught(r) == r.kind \in {"raise", "malformed"}

\* An exception of the attempt that no except clause catches.
attempt_escapes(r) == r.kind \in {"raise", "malformed"} /\ ~attempt_caught(r)

\* choice.get("message", {}).get("content") or choice.get("text") or "AI summary unavailable."
extract(r) ==
    IF Truthy(r.content) THEN r.content
    ELSE IF Truthy(r.text) THEN r.text
    ELSE Unavailable

\* The description the prompt is formatted with at a tier: .format(desc=description).
prompt_desc(description, limit) == description

\* desc_chunk = description[:limit]
desc_chunk(description, limit) == Min(description, limit)

\* The index of the last tier of the ladder.
last_tier == Len(limits)

SummInit ==
    sm = [pc |-> "idle", description |-> 0, skills |-> <<>>, i |-> 1,
          calls |-> <<>>, result |-> None]

\* summarize_job up to the first generation call.
SummarizeStart(d, skills) ==
    /\ sm.pc = "idle"
    /\ IF d = 0
       THEN sm' = [sm EXCEPT !.pc = "done", !.skills = skills,
                             !.result = NoDescription]
       ELSE sm' = [sm EXCEPT !.pc = "loop", !.skills = skills,
                             !.description = Min(d, HardCap), !.i = 1]

\* One iteration of the ladder: the generation call answers r.
SummarizeAttempt(r) ==
    /\ sm.pc = "loop"
    /\ LET limit == limits[sm.i]
           call == [limit |-> limit,
                    desc_chunk |-> desc_chunk(sm.description, limit),
                    prompt_desc |-> prompt_desc(sm.description, limit),
                    prompt_skills |-> sm.skills,
                    resp |-> r]
           logged == [sm EXCEPT !.calls = Append(@, call)]
       IN  IF attempt_escapes(r)
           THEN sm' = [logged EXCEPT !.pc = "raised"]
           ELSE IF attempt_caught(r)
           THEN IF sm.i >= last_tier
                THEN sm' = [logged EXCEPT !.pc = "done", !.result = Fallback]
                ELSE sm' = [logged EXCEPT !.i = @ + 1]
           ELSE sm' = [logged EXCEPT !.pc = "done", !.result = extract(r)]

(***************************************************************************)
(* services/scrape_service.py and routes/job_routes.py                     *)
(***************************************************************************)

VARIABLES
    now,            \* time.time()
    ncalls,         \* route invocations started so far
    JOB_CACHE,      \* cache_key -> <<timestamp, result>>
    SUMMARY_CACHE,  \* url -> <<timestamp, summary>>
    DETAIL_CACHE,   \* url -> <<timestamp, data>>
    pc,             \* per invocation: where it is suspended
    req,            \* per invocation: the request being served
    loc,            \* per invocation: the locals of the running functions
    res,            \* per invocation: the value returned to the caller
    hist,           \* per invocation: what the invocation did (observation only)
    lastDone        \* per query: the last completed fetch_linkedin_jobs call

\* Cache time-to-live (in seconds)
CACHE_TTL == 60

\* Most route invocations in one behaviour.
MaxCalls == 2

\* Most cards in a listing page of the exhaustive extraction runs.
MaxCards == 2

Procs == {1, 2}

\* The instants the clock is observed at: both sides of the TTL boundary.
Times == {0, 1, CACHE_TTL}

\* str(limit) of an int, as in the f-string of the cache key.
Digit(d) == <<"0", "1", "2", "3", "4", "5", "6", "7", "8", "9">>[d + 1]

RECURSIVE NatToStr(_)
NatToStr(n) == IF n < 10 THEN <<Digit(n)>> ELSE NatToStr(n \div 10) \o <<Digit(n % 10)>>

IntToStr(n) == IF n < 0 THEN <<"-">> \o NatToStr(-n) ELSE NatToStr(n)

\* cache_key = f"linkedin|{keyword}|{location}|{limit}"
cache_key(keyword, location, limit) ==
    <<"l", "i", "n", "k", "e", "d", "i", "n", "|">>
        \o keyword \o <<"|">> \o location \o <<"|">> \o IntToStr(limit)

\* A freshness test that still serves an entry aged exactly CACHE_TTL.
fresh_inclusive(cache, key, t) ==
    key \in DOMAIN cache /\ t - cache[key][1] <= CACHE_TTL

\* cached = CACHE.get(key); cached and (time.time() - cached[0] < CACHE_TTL)
\* (cached is a 2-tuple, which is truthy whenever it is present)
fresh(cache, key, t) ==
    key \in DOMAIN cache /\ t - cache[key][1] < CACHE_TTL

\* A store that writes the value under the timestamp already there.
put_torn(cache, key, t, value) ==
    [x \in DOMAIN cache \cup {key} |->
        IF x = key
        THEN <<IF key \in DOMAIN cache THEN cache[key][1] ELSE t, value>>
        ELSE cache[x]]

\* A store that keeps the written entry only.
put_evicting(cache, key, t, value) == [x \in {key} |-> <<t, value>>]

\* CACHE[key] = (time.time(), value)
put(cache, key, t, value) ==
    [x \in DOMAIN cache \cup {key} |-> IF x = key THEN <<t, value>> ELSE cache[x]]

NoUrl == <<>>

http == <<"h", "t", "t", "p">>
LinkedInHost ==
    <<"h", "t", "t", "p", "s", ":", "/", "/", "w", "w", "w", ".",
      "l", "i", "n", "k", "e", "d", "i", "n", ".", "c", "o", "m">>

\* href.startswith("http")
startswith(s, prefix) ==
    Len(s) >= Len(prefix) /\ SubSeq(s, 1, Len(prefix)) = prefix

\* href = anchor.get("href") if anchor else None
\* (a missing href and an empty one are both <<>>: the code tests "if href")
card_href(card) == IF card.anchor # Nil THEN card.anchor[1].href ELSE <<>>

\* A link passed on as the source gives it.
url_abs_unprefixed(href) == href

\* url_abs = href if (href and href.startswith("http"))
\*           else (f"https://www.linkedin.com{href}" if href else None)
\* (the URL None is NoUrl)
url_abs(href) ==
    IF href # <<>> /\ startswith(href, http)
    THEN href
    ELSE IF href # <<>> THEN LinkedInHost \o href ELSE NoUrl

\* title = title_el.get_text(" ", strip=True) if title_el
\*         else (anchor.get_text(" ", strip=True) if anchor else None)
card_title(card) ==
    IF card.title_el # None THEN card.title_el
    ELSE IF card.anchor # Nil THEN card.anchor[1].text ELSE None

\* company = company_el.get_text(" ", strip=True) if company_el else None
card_company(card) == card.company_el

\* loc = loc_el.get_text(" ", strip=True) if loc_el else None
card_location(card) == card.loc_el

\* The completeness test that asks for a URL only.
card_complete_url_only(card) == url_abs(card_href(card)) # NoUrl

\* if title and url_abs
card_complete(card) ==
    Truthy(card_title(card)) /\ url_abs(card_href(card)) # NoUrl

\* The dict appended to jobs.
job_of(card, summary) ==
    [title |-> card_title(card), company |-> card_company(card),
     location |-> card_location(card), url |-> url_abs(card_href(card)),
     summary |-> summary]

(***************************************************************************)
(* The locator cascades of fetch_linkedin_jobs and                         *)
(* extract_description_element.                                            *)
(*                                                                         *)
(* The markup of a card is what each select_one call finds in it, in the   *)
(* order the code makes the calls: no element, or an element reduced to    *)
(* its stripped text (for an anchor: its href and its stripped text).      *)
(***************************************************************************)

VARIABLE cx        \* one extraction: the markup, the fields extracted from it

\* e1 or e2 or ... over select_one results: the first element found. (An
\* element is truthy whatever its contents; select_one gives None when
\* nothing matches.)
select_first(els, absent) ==
    IF \E i \in 1..Len(els) : els[i] # absent
    THEN els[CHOOSE i \in 1..Len(els) :
                 els[i] # absent /\ \A j \in 1..(i - 1) : els[j] = absent]
    ELSE absent

\* The four cascades of the card loop.
parse_card(markup) ==
    [anchor |-> select_first(markup.anchors, Nil),
     title_el |-> select_first(markup.titles, None),
     company_el |-> select_first(markup.companies, None),
     loc_el |-> select_first(markup.locs, None),
     broken |-> FALSE]

\* extract_description_element(soup) over the eight locators of a job page.
extract_description_element(descs) == select_first(descs, None)

\* summary_el = extract_description_element(job_soup)
\* if summary_el: summary = summary_el.get_text(" ", strip=True)
page_summary(descs) == extract_description_element(descs)

\* The fields the card loop computes for a card and its job page.
extract_fields(markup) ==
    LET card == parse_card(markup)
    IN  [title |-> card_title(card), company |-> card_company(card),
         location |-> card_location(card), url |-> url_abs(card_href(card)),
         summary |-> page_summary(markup.descs)]

NoFields ==
    [title |-> None, company |-> None, location |-> None, url |-> NoUrl,
     summary |-> None]

Texts == {None, "", "x", "y"}
AnchorEls ==
    {Nil} \cup {Some(a) : a \in [href : {<<>>, <<"/", "1">>, <<"h", "t", "t", "p", ":", "2">>},
                                  text : {"", "Apply"}]}

\* A card with one element for each field, at each cascade's first locator.
PlainMarkup ==
    [anchors |-> <<Some([href |-> <<"/", "1">>, text |-> "Apply"]), Nil, Nil>>,
     titles |-> <<"x", None, None>>,
     companies |-> <<"x", None, None, None>>,
     locs |-> <<"x", None, None>>,
     descs |-> <<"x", None, None, None, None, None, None, None>>]

\* The markups of the extraction runs: one field's locators vary at a time
\* (the title's together with the anchors it falls back to).
Markups ==
    {[PlainMarkup EXCEPT !.companies = c] : c \in [1..4 -> Texts]}
    \cup {[PlainMarkup EXCEPT !.locs = l] : l \in [1..3 -> Texts]}
    \cup {[PlainMarkup EXCEPT !.anchors = a] : a \in [1..3 -> AnchorEls]}
    \cup {[PlainMarkup EXCEPT !.titles = t, !.anchors = <<a, Nil, Nil>>] :
              t \in [1..3 -> Texts], a \in AnchorEls}
    \cup {[PlainMarkup EXCEPT !.descs = [i \in 1..8 |-> IF i <= 3 THEN d[i] ELSE None]] :
              d \in [1..3 -> Texts]}
    \cup {[PlainMarkup EXCEPT !.descs = [i \in 1..8 |-> IF i >= 7 THEN d[i - 6] ELSE None]] :
              d \in [1..2 -> Texts]}

CascadeInit == cx \in [pc : {"ready"}, markup : Markups, fields : {NoFields}]

CascadeIdle == cx = [pc |-> "idle", markup |-> PlainMarkup, fields |-> NoFields]

\* One pass of the card loop's extraction over the markup.
Extract ==
    /\ cx.pc = "ready"
    /\ cx' = [cx EXCEPT !.pc = "done", !.fields = extract_fields(cx.markup)]

(***************************************************************************)
(* The remote source and the callers: what a request may carry and what    *)
(* the network may answer.                                                 *)
(***************************************************************************)

Href1 == <<"/", "1">>
Href2 == <<"h", "t", "t", "p", ":", "2">>

\* A listing card as the extractor sees it: the element each locator
\* cascade resolves to (None when no locator matches), already reduced to
\* its stripped text; broken cards make the extraction raise.
Card(anchor, title_el, broken) ==
    [anchor |-> anchor, title_el |-> title_el, company_el |-> "Acme",
     loc_el |-> None, broken |-> broken]

Full1 == Card(Some([href |-> Href1, text |-> "Apply"]), "Dev", FALSE)
Full2 == Card(Some([href |-> Href2, text |-> "Apply"]), "Ops", FALSE)
AnchorTitle == Card(Some([href |-> Href2, text |-> "QA"]), None, FALSE)
EmptyTitle == Card(Some([href |-> Href1, text |-> "x"]), "", FALSE)
NoLink == Card(Nil, "Dev", FALSE)
Broken == Card(Some([href |-> Href1, text |-> "Apply"]), "Dev", TRUE)

CardPool == {Full1, Full2, AnchorTitle, EmptyTitle, NoLink, Broken}

\* The listing pages of the multi-call runs, of the exhaustive extraction
\* runs and of the filtered-search runs; the body of an error page.
Listings == {<<Full1>>, <<Full2, Full1>>}
AllListings == SeqsUpTo(CardPool, MaxCards)
FilterListings == SeqsUpTo({Full1, Full2}, MaxCards)
ErrorPages == {<<>>}

\* The queries (keyword, location, limit) of the multi-call runs, of the
\* exhaustive extraction runs and of the filtered-search runs.
Queries == {<<(<<"a">>), (<<"c">>), 1>>, <<(<<"a">>), (<<"c">>), 2>>}
WideQueries == {<<(<<"a">>), (<<"c">>), lim>> : lim \in {1, 2, 3, 25}}
FilterQueries == {<<(<<"a">>), (<<"c">>), lim>> : lim \in {1, 5}}
FilterSkills == {<<>>, << <<"a">> >>, << <<"A", " ">>, <<"+">> >>}
Urls == {url_abs(Href1)}

\* requests.get on the listing URL: it raises, or it returns a response
\* with a status code and a body holding the given cards.
ListingOutcomes(pool) ==
    [kind : {"raise"}, msg : {"timeout"}, status : {0}, cards : {<<>>}]
    \cup [kind : {"http"}, msg : {None}, status : {200}, cards : pool]
    \cup [kind : {"http"}, msg : {None}, status : {500}, cards : ErrorPages]

\* requests.get on a job page inside the card loop: it raises, or the page
\* has a description element with the given text (None: no such element).
SummaryOutcomes ==
    [kind : {"raise"}, desc : {None}] \cup [kind : {"page"}, desc : {None, "short"}]

\* requests.get on a job page in fetch_job_details.
\* (desc: Nil when the page has no description element)
DetailDescs == {Nil, Some(<<"a">>), Some(<<"a", "a">>)}
DetailOutcomes ==
    [kind : {"raise"}, msg : {"timeout"}, status : {0}, desc : {Nil}]
    \cup [kind : {"http"}, msg : {None}, status : {500}, desc : {Nil}]
    \cup [kind : {"http"}, msg : {None}, status : {200}, desc : DetailDescs]

Request(op, keyword, location, limit, skills, url) ==
    [op |-> op, keyword |-> keyword, location |-> location, limit |-> limit,
     skills |-> skills, url |-> url]

NoRequest == Request(None, <<>>, <<>>, 0, <<>>, NoUrl)

Query(r) == <<r.keyword, r.location, r.limit>>

Loc0 ==
    [cards |-> <<>>, k |-> 0, jobs |-> <<>>, raw |-> Nil, i |-> 0,
     filtered |-> <<>>, descs |-> <<>>]

\* What an invocation did: start time, the last completed call with the same
\* query when it started, listing fetches made, the listing outcome, the
\* cards a summary fetch was issued for, the cards processed, the URLs a
\* detail fetch was issued for, the value fetch_linkedin_jobs returned, where
\* each card's summary came from, how each fetch_job_details call ended, the
\* three caches as the invocation found them.
Hist0(t, prev) ==
    [t0 |-> t, prev |-> prev, nfetch |-> 0, outcome |-> Nil, sumlog |-> <<>>,
     seen |-> <<>>, detlog |-> <<>>, ret |-> Nil, sumres |-> <<>>,
     detres |-> <<>>,
     before |-> [job |-> JOB_CACHE, summary |-> SUMMARY_CACHE,
                 detail |-> DETAIL_CACHE]]

\* How the summary of card k was obtained: src is "nourl", "cache", "page" or
\* "raise".
SumRes(k, src, summary) == [k |-> k, src |-> src, summary |-> summary]

\* How the fetch_job_details call for raw["jobs"][i] ended: "cache", "ok" or
\* "failed".
DetRes(i, src) == [i |-> i, src |-> src]

vars ==
    <<now, ncalls, JOB_CACHE, SUMMARY_CACHE, DETAIL_CACHE, pc, req, loc, res,
      hist, lastDone, sm, mt, cx>>

pipeVars ==
    <<now, ncalls, JOB_CACHE, SUMMARY_CACHE, DETAIL_CACHE, pc, req, loc, res,
      hist, lastDone>>

PipeInit(n) ==
    /\ now = 0
    /\ ncalls = n
    /\ JOB_CACHE = <<>>
    /\ SUMMARY_CACHE = <<>>
    /\ DETAIL_CACHE = <<>>
    /\ pc = [p \in Procs |-> "idle"]
    /\ req = [p \in Procs |-> NoRequest]
    /\ loc = [p \in Procs |-> Loc0]
    /\ res = [p \in Procs |-> Nil]
    /\ hist = [p \in Procs |-> Hist0(0, Nil)]
    /\ lastDone = <<>>

(***************************************************************************)
(* fetch_linkedin_jobs, search_jobs, search_user, fetch_job_details.       *)
(* An invocation runs from one network call to the next in one step.       *)
(***************************************************************************)

\* A response that counts the jobs found after filtering.
filtered_response_miscounted(raw, filtered) ==
    [error |-> None, jobs_found |-> Len(filtered), jobs_filtered |-> Len(filtered),
     jobs |-> filtered]

\* The dict search_user returns after its loop.
filtered_response(raw, filtered) ==
    [error |-> None, jobs_found |-> Len(raw.jobs), jobs_filtered |-> Len(filtered),
     jobs |-> filtered]

\* A search_user that goes into its loop without looking at raw["error"].
Returned_unchecked(p, r, rawres, L, H) ==
    /\ hist' = [hist EXCEPT ![p] = [H EXCEPT !.ret = Some(rawres)]]
    /\ lastDone' =
           [q \in DOMAIN lastDone \cup {Query(r)} |->
               IF q = Query(r)
               THEN [t0 |-> H.t0, nfetch |-> H.nfetch, ret |-> rawres]
               ELSE lastDone[q]]
    /\ IF r.op = "search"
       THEN /\ pc' = [pc EXCEPT ![p] = "done"]
            /\ res' = [res EXCEPT ![p] = Some(rawres)]
            /\ loc' = [loc EXCEPT ![p] = [L EXCEPT !.raw = Some(rawres)]]
       ELSE IF rawres.jobs = <<>>
       THEN /\ pc' = [pc EXCEPT ![p] = "done"]
            /\ res' = [res EXCEPT ![p] = Some(filtered_response(rawres, <<>>))]
            /\ loc' = [loc EXCEPT ![p] = [L EXCEPT !.raw = Some(rawres)]]
       ELSE /\ pc' = [pc EXCEPT ![p] = "filter"]
            /\ res' = [res EXCEPT ![p] = Nil]
            /\ loc' = [loc EXCEPT ![p] = [L EXCEPT !.raw = Some(rawres), !.i = 1,
                                                   !.filtered = <<>>, !.descs = <<>>]]

\* fetch_linkedin_jobs returns rawres to the route r.op of invocation p, whose
\* locals are L and whose record is H: search_jobs returns it as it is,
\* search_user returns it when raw["error"] is truthy and otherwise starts
\* its loop over raw["jobs"].
Returned(p, r, rawres, L, H) ==
    /\ hist' = [hist EXCEPT ![p] = [H EXCEPT !.ret = Some(rawres)]]
    /\ lastDone' =
           [q \in DOMAIN lastDone \cup {Query(r)} |->
               IF q = Query(r)
               THEN [t0 |-> H.t0, nfetch |-> H.nfetch, ret |-> rawres]
               ELSE lastDone[q]]
    /\ IF r.op = "search" \/ Truthy(rawres.error)
       THEN /\ pc' = [pc EXCEPT ![p] = "done"]
            /\ res' = [res EXCEPT ![p] = Some(rawres)]
            /\ loc' = [loc EXCEPT ![p] = [L EXCEPT !.raw = Some(rawres)]]
       ELSE IF rawres.jobs = <<>>
       THEN /\ pc' = [pc EXCEPT ![p] = "done"]
            /\ res' = [res EXCEPT ![p] = Some(filtered_response(rawres, <<>>))]
            /\ loc' = [loc EXCEPT ![p] = [L EXCEPT !.raw = Some(rawres)]]
       ELSE /\ pc' = [pc EXCEPT ![p] = "filter"]
            /\ res' = [res EXCEPT ![p] = Nil]
            /\ loc' = [loc EXCEPT ![p] = [L EXCEPT !.raw = Some(rawres), !.i = 1,
                                                   !.filtered = <<>>, !.descs = <<>>]]

\* The result returned without being cached.
StoreAndReturn_nostore(p, r, L, H) ==
    /\ JOB_CACHE' = JOB_CACHE
    /\ Returned(p, r, [error |-> None, jobs |-> L.jobs], L, H)

\* result = {"error": None, "jobs": jobs}; JOB_CACHE[cache_key] = (time.time(), result)
StoreAndReturn(p, r, L, H) ==
    LET result == [error |-> None, jobs |-> L.jobs]
    IN  /\ JOB_CACHE' = put(JOB_CACHE, cache_key(r.keyword, r.location, r.limit),
                            now, result)
        /\ Returned(p, r, result, L, H)

\* The end of one pass of the card loop: brk is the test len(jobs) >= limit
\* (not evaluated after a card whose extraction raised).
LoopNext(p, L, H, brk) ==
    IF brk \/ L.k >= Len(L.cards)
    THEN StoreAndReturn(p, req[p], L, H)
    ELSE /\ pc' = [pc EXCEPT ![p] = "card"]
         /\ loc' = [loc EXCEPT ![p] = [L EXCEPT !.k = @ + 1]]
         /\ hist' = [hist EXCEPT ![p] = H]
         /\ UNCHANGED <<res, lastDone, JOB_CACHE>>

\* A tail that drops a job whose summary is absent.
FinishCard_needs_summary(p, card, summary, H) ==
    LET J == IF card_complete(card) /\ summary # None
             THEN Append(loc[p].jobs, job_of(card, summary))
             ELSE loc[p].jobs
    IN  LoopNext(p, [loc[p] EXCEPT !.jobs = J], H, Len(J) >= req[p].limit)

\* The tail of a card's pass: append the job when complete, test the limit.
FinishCard(p, card, summary, H) ==
    LET J == IF card_complete(card)
             THEN Append(loc[p].jobs, job_of(card, summary))
             ELSE loc[p].jobs
    IN  LoopNext(p, [loc[p] EXCEPT !.jobs = J], H, Len(J) >= req[p].limit)

\* A route calls fetch_linkedin_jobs: the cache lookup.
StartQuery(p, op, keyword, location, limit, skills) ==
    /\ pc[p] \in {"idle", "done"}
    /\ ncalls < MaxCalls
    /\ ncalls' = ncalls + 1
    /\ LET r == Request(op, keyword, location, limit, skills, NoUrl)
           key == cache_key(keyword, location, limit)
           H == Hist0(now, IF Query(r) \in DOMAIN lastDone
                           THEN Some(lastDone[Query(r)]) ELSE Nil)
       IN  /\ req' = [req EXCEPT ![p] = r]
           /\ IF fresh(JOB_CACHE, key, now)
              THEN Returned(p, r, JOB_CACHE[key][2], Loc0, H)
              ELSE /\ pc' = [pc EXCEPT ![p] = "listing"]
                   /\ loc' = [loc EXCEPT ![p] = Loc0]
                   /\ res' = [res EXCEPT ![p] = Nil]
                   /\ hist' = [hist EXCEPT ![p] = H]
                   /\ UNCHANGED lastDone
    /\ UNCHANGED <<now, JOB_CACHE, SUMMARY_CACHE, DETAIL_CACHE, sm, mt, cx>>

\* GET /jobs/search
search_jobs(p, keyword, location, limit) ==
    StartQuery(p, "search", keyword, location, limit, <<>>)

\* POST /jobs/search_user
search_user(p, keyword, location, limit, skills) ==
    StartQuery(p, "filtered", keyword, location, limit, skills)

\* A listing fetch that stores the error result it returns.
ListingFetch_caching_error(p, o) ==
    /\ pc[p] = "listing"
    /\ LET H == [hist[p] EXCEPT !.nfetch = @ + 1,
                                !.outcome = Some([kind |-> o.kind, status |-> o.status])]
       IN  IF o.kind = "raise"
           THEN /\ Returned(p, req[p], [error |-> o.msg, jobs |-> <<>>], loc[p], H)
                /\ JOB_CACHE' =
                      put(JOB_CACHE,
                          cache_key(req[p].keyword, req[p].location, req[p].limit),
                          now, [error |-> o.msg, jobs |-> <<>>])
           ELSE LoopNext(p, [loc[p] EXCEPT !.cards = o.cards, !.k = 0], H, FALSE)
    /\ UNCHANGED <<now, ncalls, req, SUMMARY_CACHE, DETAIL_CACHE, sm, mt, cx>>

\* requests.get(url, headers=headers, timeout=15).text answers o.
ListingFetch(p, o) ==
    /\ pc[p] = "listing"
    /\ LET H == [hist[p] EXCEPT !.nfetch = @ + 1,
                                !.outcome = Some([kind |-> o.kind, status |-> o.status])]
       IN  IF o.kind = "raise"
           THEN /\ Returned(p, req[p], [error |-> o.msg, jobs |-> <<>>], loc[p], H)
                /\ UNCHANGED JOB_CACHE
           ELSE LoopNext(p, [loc[p] EXCEPT !.cards = o.cards, !.k = 0], H, FALSE)
    /\ UNCHANGED <<now, ncalls, req, SUMMARY_CACHE, DETAIL_CACHE, sm, mt, cx>>

\* One pass of "for card in cards" up to the summary fetch, or to its end
\* when no fetch is needed.
CardStep(p) ==
    /\ pc[p] = "card"
    /\ LET card == loc[p].cards[loc[p].k]
           u == url_abs(card_href(card))
           H == [hist[p] EXCEPT !.seen = Append(@, loc[p].k)]
       IN  IF card.broken
           THEN LoopNext(p, loc[p], H, FALSE)
           ELSE IF u # NoUrl /\ ~fresh(SUMMARY_CACHE, u, now)
           THEN /\ pc' = [pc EXCEPT ![p] = "sumfetch"]
                /\ hist' = [hist EXCEPT ![p] = H]
                /\ UNCHANGED <<loc, res, lastDone, JOB_CACHE>>
           ELSE IF u # NoUrl
           THEN FinishCard(p, card, SUMMARY_CACHE[u][2],
                           [H EXCEPT !.sumres =
                               Append(@, SumRes(loc[p].k, "cache", SUMMARY_CACHE[u][2]))])
           ELSE FinishCard(p, card, None,
                           [H EXCEPT !.sumres = Append(@, SumRes(loc[p].k, "nourl", None))])
    /\ UNCHANGED <<now, ncalls, req, SUMMARY_CACHE, DETAIL_CACHE, sm, mt, cx>>

\* requests.get(url_abs, headers=headers, timeout=10) answers o; the rest of
\* the card's pass.
SummaryFetch(p, o) ==
    /\ pc[p] = "sumfetch"
    /\ LET card == loc[p].cards[loc[p].k]
           u == url_abs(card_href(card))
           H == [hist[p] EXCEPT !.sumlog = Append(@, loc[p].k)]
       IN  IF o.kind = "raise"
           THEN /\ FinishCard(p, card, None,
                              [H EXCEPT !.sumres =
                                  Append(@, SumRes(loc[p].k, "raise", None))])
                /\ UNCHANGED SUMMARY_CACHE
           ELSE /\ FinishCard(p, card, o.desc,
                              [H EXCEPT !.sumres =
                                  Append(@, SumRes(loc[p].k, "page", o.desc))])
                /\ SUMMARY_CACHE' = put(SUMMARY_CACHE, u, now, o.desc)
    /\ UNCHANGED <<now, ncalls, req, DETAIL_CACHE, sm, mt, cx>>

\* full_desc = details.get("description", "") or ""
full_desc(details) ==
    IF "description" \in DOMAIN details /\ details.description # Nil
    THEN details.description[1]
    ELSE <<>>

\* The rest of one pass of search_user's loop once fetch_job_details
\* returned details.
FilterAdvance(p, details, H) ==
    LET L == loc[p]
        job == L.raw[1].jobs[L.i]
        fd == full_desc(details)
        F == IF job_matches_skills(fd, req[p].skills, DefaultThreshold)
             THEN Append(L.filtered, job) ELSE L.filtered
        L2 == [L EXCEPT !.filtered = F, !.descs = Append(@, fd)]
    IN  /\ hist' = [hist EXCEPT ![p] = H]
        /\ IF L.i >= Len(L.raw[1].jobs)
           THEN /\ pc' = [pc EXCEPT ![p] = "done"]
                /\ res' = [res EXCEPT ![p] = Some(filtered_response(L.raw[1], F))]
                /\ loc' = [loc EXCEPT ![p] = L2]
           ELSE /\ pc' = [pc EXCEPT ![p] = "filter"]
                /\ res' = res
                /\ loc' = [loc EXCEPT ![p] = [L2 EXCEPT !.i = @ + 1]]

\* The URL the running fetch_job_details was called with.
detail_url(p) ==
    IF req[p].op = "details" THEN req[p].url ELSE loc[p].raw[1].jobs[loc[p].i].url

\* A lookup that falls back on the short-summary entry of the URL.
FilterStep_reads_summaries(p) ==
    /\ pc[p] = "filter"
    /\ LET u == detail_url(p)
       IN  IF fresh(DETAIL_CACHE, u, now)
           THEN FilterAdvance(p, DETAIL_CACHE[u][2],
                              [hist[p] EXCEPT !.detres =
                                  Append(@, DetRes(loc[p].i, "cache"))])
           ELSE IF fresh(SUMMARY_CACHE, u, now)
           THEN FilterAdvance(p, [description |-> Nil],
                              [hist[p] EXCEPT !.detres =
                                  Append(@, DetRes(loc[p].i, "cache"))])
           ELSE /\ pc' = [pc EXCEPT ![p] = "detail"]
                /\ UNCHANGED <<loc, res, hist>>
    /\ UNCHANGED <<now, ncalls, req, JOB_CACHE, SUMMARY_CACHE, DETAIL_CACHE,
                   lastDone, sm, mt, cx>>

\* search_user calls fetch_job_details(job["url"]): the cache lookup.
FilterStep(p) ==
    /\ pc[p] = "filter"
    /\ LET u == detail_url(p)
       IN  IF fresh(DETAIL_CACHE, u, now)
           THEN FilterAdvance(p, DETAIL_CACHE[u][2],
                              [hist[p] EXCEPT !.detres =
                                  Append(@, DetRes(loc[p].i, "cache"))])
           ELSE /\ pc' = [pc EXCEPT ![p] = "detail"]
                /\ UNCHANGED <<loc, res, hist>>
    /\ UNCHANGED <<now, ncalls, req, JOB_CACHE, SUMMARY_CACHE, DETAIL_CACHE,
                   lastDone, sm, mt, cx>>

\* GET /jobs/details: fetch_job_details(url), the cache lookup.
job_details(p, url) ==
    /\ pc[p] \in {"idle", "done"}
    /\ ncalls < MaxCalls
    /\ ncalls' = ncalls + 1
    /\ req' = [req EXCEPT ![p] = Request("details", <<>>, <<>>, 0, <<>>, url)]
    /\ loc' = [loc EXCEPT ![p] = Loc0]
    /\ hist' = [hist EXCEPT ![p] = Hist0(now, Nil)]
    /\ IF fresh(DETAIL_CACHE, url, now)
       THEN /\ pc' = [pc EXCEPT ![p] = "done"]
            /\ res' = [res EXCEPT ![p] = Some(DETAIL_CACHE[url][2])]
       ELSE /\ pc' = [pc EXCEPT ![p] = "detail"]
            /\ res' = [res EXCEPT ![p] = Nil]
    /\ UNCHANGED <<now, JOB_CACHE, SUMMARY_CACHE, DETAIL_CACHE, lastDone, sm, mt, cx>>

\* The dict fetch_job_details builds from a 200 page.
detail_data(url, o) ==
    [title |-> "Dev", company |-> "Acme", location |-> None, url |-> url,
     description |-> o.desc]

\* requests.get(url, headers=headers, timeout=15) in fetch_job_details answers o.
DetailFetch(p, o) ==
    /\ pc[p] = "detail"
    /\ LET u == detail_url(p)
           ok == o.kind = "http" /\ o.status = 200
           H == [hist[p] EXCEPT !.detlog = Append(@, u),
                                !.detres = Append(@, DetRes(loc[p].i,
                                                  IF ok THEN "ok" ELSE "failed"))]
           details ==
               IF o.kind = "raise" THEN [error |-> o.msg]
               ELSE IF o.status # 200 THEN [error |-> "LinkedIn HTTP 500"]
               ELSE detail_data(u, o)
       IN  /\ DETAIL_CACHE' =
                 IF o.kind = "http" /\ o.status = 200
                 THEN put(DETAIL_CACHE, u, now, details)
                 ELSE DETAIL_CACHE
           /\ IF req[p].op = "details"
              THEN /\ pc' = [pc EXCEPT ![p] = "done"]
                   /\ res' = [res EXCEPT ![p] = Some(details)]
                   /\ hist' = [hist EXCEPT ![p] = H]
                   /\ loc' = loc
              ELSE FilterAdvance(p, details, H)
    /\ UNCHANGED <<now, ncalls, req, JOB_CACHE, SUMMARY_CACHE, lastDone, sm, mt, cx>>

\* Time passes.
Tick ==
    /\ \E t \in Times : t > now /\ now' = t
    /\ UNCHANGED <<ncalls, JOB_CACHE, SUMMARY_CACHE, DETAIL_CACHE, pc, req, loc,
                   res, hist, lastDone, sm, mt, cx>>

\* Requests are served one at a time by invocation 1.
SeqProcs == {1}

Init == PipeInit(0) /\ SummInit /\ MatchIdle /\ CascadeIdle

\* Searches and detail requests, one after the other, as time passes.
Next ==
    \/ Tick
    \/ \E p \in SeqProcs, q \in Queries : search_jobs(p, q[1], q[2], q[3])
    \/ \E p \in SeqProcs, u \in Urls : job_details(p, u)
    \/ \E p \in SeqProcs, o \in ListingOutcomes(Listings) : ListingFetch(p, o)
    \/ \E p \in SeqProcs : CardStep(p)
    \/ \E p \in SeqProcs, o \in SummaryOutcomes : SummaryFetch(p, o)
    \/ \E p \in SeqProcs, o \in DetailOutcomes : DetailFetch(p, o)

Spec == Init /\ [][Next]_vars

\* One route invocation in a behaviour.
InitOne == PipeInit(MaxCalls - 1) /\ SummInit /\ MatchIdle /\ CascadeIdle

\* One search over every listing page of at most MaxCards cards.
NextExtract ==
    \/ Tick
    \/ \E p \in SeqProcs, q \in WideQueries : search_jobs(p, q[1], q[2], q[3])
    \/ \E p \in SeqProcs, o \in ListingOutcomes(AllListings) : ListingFetch(p, o)
    \/ \E p \in SeqProcs : CardStep(p)
    \/ \E p \in SeqProcs, o \in SummaryOutcomes : SummaryFetch(p, o)

SpecExtract == InitOne /\ [][NextExtract]_vars

\* Searches one after the other over pages with incomplete cards.
MixedListings == {<<Full2, Full1>>, <<EmptyTitle, AnchorTitle>>, <<NoLink, Full1>>}

NextCached ==
    \/ Tick
    \/ \E p \in SeqProcs, q \in Queries : search_jobs(p, q[1], q[2], q[3])
    \/ \E p \in SeqProcs, o \in ListingOutcomes(MixedListings) : ListingFetch(p, o)
    \/ \E p \in SeqProcs : CardStep(p)
    \/ \E p \in SeqProcs, o \in SummaryOutcomes : SummaryFetch(p, o)

SpecCached == Init /\ [][NextCached]_vars

\* Searches one after the other whose keyword or location holds the "|" of
\* the cache key.
KeyQueries ==
    {<<(<<"a", "|", "b">>), (<<"c">>), 1>>,
     <<(<<"a">>), (<<"b", "|", "c">>), 1>>,
     <<(<<"a">>), (<<"b", "|", "c">>), 2>>}

NextKeys ==
    \/ Tick
    \/ \E p \in SeqProcs, q \in KeyQueries : search_jobs(p, q[1], q[2], q[3])
    \/ \E p \in SeqProcs, o \in ListingOutcomes(Listings) : ListingFetch(p, o)
    \/ \E p \in SeqProcs : CardStep(p)
    \/ \E p \in SeqProcs, o \in SummaryOutcomes : SummaryFetch(p, o)

SpecKeys == Init /\ [][NextKeys]_vars

\* Two invocations served by different worker threads: their steps
\* interleave at every network call.
ConcQueries == {<<(<<"a">>), (<<"c">>), 2>>}

NextConc ==
    \/ Tick
    \/ \E p \in Procs, q \in ConcQueries : search_jobs(p, q[1], q[2], q[3])
    \/ \E p \in Procs, u \in Urls : job_details(p, u)
    \/ \E p \in Procs, o \in ListingOutcomes(Listings) : ListingFetch(p, o)
    \/ \E p \in Procs : CardStep(p)
    \/ \E p \in Procs, o \in SummaryOutcomes : SummaryFetch(p, o)
    \/ \E p \in Procs, o \in DetailOutcomes : DetailFetch(p, o)

SpecConc == Init /\ [][NextConc]_vars

\* One filtered search.
NextFilter ==
    \/ Tick
    \/ \E p \in SeqProcs, q \in FilterQueries, sk \in FilterSkills :
          search_user(p, q[1], q[2], q[3], sk)
    \/ \E p \in SeqProcs, o \in ListingOutcomes(FilterListings) : ListingFetch(p, o)
    \/ \E p \in SeqProcs : CardStep(p)
    \/ \E p \in SeqProcs, o \in SummaryOutcomes : SummaryFetch(p, o)
    \/ \E p \in SeqProcs : FilterStep(p)
    \/ \E p \in SeqProcs, o \in DetailOutcomes : DetailFetch(p, o)

SpecFilter == InitOne /\ [][NextFilter]_vars

\* One search, plain or filtered, over pages whose cards may lack a title.
RecoverListings == SeqsUpTo({Full1, Full2, EmptyTitle}, MaxCards)

NextRecover ==
    \/ Tick
    \/ \E p \in SeqProcs, q \in FilterQueries : search_jobs(p, q[1], q[2], q[3])
    \/ \E p \in SeqProcs, q \in FilterQueries, sk \in FilterSkills :
          search_user(p, q[1], q[2], q[3], sk)
    \/ \E p \in SeqProcs, o \in ListingOutcomes(RecoverListings) : ListingFetch(p, o)
    \/ \E p \in SeqProcs : CardStep(p)
    \/ \E p \in SeqProcs, o \in SummaryOutcomes : SummaryFetch(p, o)
    \/ \E p \in SeqProcs : FilterStep(p)
    \/ \E p \in SeqProcs, o \in DetailOutcomes : DetailFetch(p, o)

SpecRecover == InitOne /\ [][NextRecover]_vars

\* One search, plain or filtered, with a limit inside or outside 1..25: the
\* routes of job_routes.py take any int.
LimitQueries == {<<(<<"a">>), (<<"c">>), lim>> : lim \in {-1, 0, 1, 26}}

NextLimits ==
    \/ Tick
    \/ \E p \in SeqProcs, q \in LimitQueries : search_jobs(p, q[1], q[2], q[3])
    \/ \E p \in SeqProcs, q \in LimitQueries, sk \in FilterSkills :
          search_user(p, q[1], q[2], q[3], sk)
    \/ \E p \in SeqProcs, o \in ListingOutcomes(RecoverListings) : ListingFetch(p, o)
    \/ \E p \in SeqProcs : CardStep(p)
    \/ \E p \in SeqProcs, o \in SummaryOutcomes : SummaryFetch(p, o)
    \/ \E p \in SeqProcs : FilterStep(p)
    \/ \E p \in SeqProcs, o \in DetailOutcomes : DetailFetch(p, o)

SpecLimits == InitOne /\ [][NextLimits]_vars

\* Searches, plain or filtered, and detail requests, one after the other,
\* over pages in which two cards may link to the same job page.
SharedListings == {<<Full1, Full1>>, <<EmptyTitle, Full1>>, <<Full2, Full1>>}

SharedQueries == {<<(<<"a">>), (<<"c">>), 5>>}
SharedSkills == {<< <<"a">> >>}

NextShared ==
    \/ Tick
    \/ \E p \in SeqProcs, q \in SharedQueries : search_jobs(p, q[1], q[2], q[3])
    \/ \E p \in SeqProcs, q \in SharedQueries, sk \in SharedSkills :
          search_user(p, q[1], q[2], q[3], sk)
    \/ \E p \in SeqProcs, u \in Urls : job_details(p, u)
    \/ \E p \in SeqProcs, o \in ListingOutcomes(SharedListings) : ListingFetch(p, o)
    \/ \E p \in SeqProcs : CardStep(p)
    \/ \E p \in SeqProcs, o \in SummaryOutcomes : SummaryFetch(p, o)
    \/ \E p \in SeqProcs : FilterStep(p)
    \/ \E p \in SeqProcs, o \in DetailOutcomes : DetailFetch(p, o)

SpecShared == Init /\ [][NextShared]_vars

\* The matcher on every description, skill list and threshold of its inputs.
InitMatch == PipeInit(0) /\ SummInit /\ MatchInit /\ CascadeIdle

NextMatch ==
    \E th \in Thresholds : MatchCall(th) /\ UNCHANGED <<pipeVars, sm, cx>>

SpecMatch == InitMatch /\ [][NextMatch]_vars

\* The summarizer on every description length and every sequence of
\* generation outcomes.
InitSumm == PipeInit(0) /\ SummInit /\ MatchIdle /\ CascadeIdle

NextSumm ==
    \/ \E d \in DescLens, sk \in SummSkills :
          SummarizeStart(d, sk) /\ UNCHANGED <<pipeVars, mt, cx>>
    \/ \E r \in Responses : SummarizeAttempt(r) /\ UNCHANGED <<pipeVars, mt, cx>>

SpecSumm == InitSumm /\ [][NextSumm]_vars

\* The extraction on every markup of its inputs.
InitCascade == PipeInit(0) /\ SummInit /\ MatchIdle /\ CascadeInit

NextCascade == Extract /\ UNCHANGED <<pipeVars, sm, mt>>

SpecCascade == InitCascade /\ [][NextCascade]_vars

(***************************************************************************)
(* Properties of the skill matcher (SpecMatch).                            *)
(***************************************************************************)

\* The character class of a token: letters, digits, '+' and '#'.
InClass(c) == c \in {"a", "A", "0", "1", "+", "#"}

\* Case folding and trimming, stated directly.
Fold(s) == [i \in 1..Len(s) |-> IF s[i] = "A" THEN "a" ELSE s[i]]

Trim(s) ==
    LET keep == {i \in 1..Len(s) : s[i] # " "}
    IN  IF keep = {} THEN <<>>
        ELSE SubSeq(s, CHOOSE i \in keep : \A j \in keep : i <= j,
                       CHOOSE i \in keep : \A j \in keep : i >= j)

\* d[a..b] is a maximal run of class characters of d.
IsToken(d, a, b) ==
    /\ 1 <= a /\ a <= b /\ b <= Len(d)
    /\ \A i \in a..b : InClass(d[i])
    /\ a = 1 \/ ~InClass(d[a - 1])
    /\ b = Len(d) \/ ~InClass(d[b + 1])

\* The skill, folded and trimmed, equals one of the description's tokens.
EqualsToken(d, skill) ==
    \E a \in 1..Len(d), b \in 1..Len(d) :
        IsToken(d, a, b) /\ Fold(SubSeq(d, a, b)) = Trim(Fold(skill))

\* The skill, folded and trimmed, occurs somewhere inside the folded description.
OccursIn(d, skill) ==
    LET sc == Trim(Fold(skill))
    IN  /\ sc # <<>>
        /\ \E a \in 1..Len(d), b \in 1..Len(d) :
              a <= b /\ Fold(SubSeq(d, a, b)) = sc

\* C6: a skill counts as matched exactly when its folded, trimmed form equals
\* one of the description's tokens; a skill that only occurs inside a token,
\* or that holds a character outside the token class, is never matched.
C6_TokenExactMatching ==
    mt.pc = "done" =>
        \A i \in 1..Len(mt.skills) :
            /\ mt.hits[i] <=> EqualsToken(mt.description, mt.skills[i])
            /\ (\E n \in 1..Len(Trim(Fold(mt.skills[i]))) :
                    ~InClass(Trim(Fold(mt.skills[i]))[n])) => ~mt.hits[i]

\* A run where one skill is matched after folding and another, which only
\* occurs inside a longer token, is not.
C6_Witness ==
    /\ mt.pc = "done"
    /\ \E i \in 1..Len(mt.skills) :
          mt.hits[i] /\ mt.skills[i] # Trim(Fold(mt.skills[i]))
    /\ \E j \in 1..Len(mt.skills) :
          ~mt.hits[j] /\ OccursIn(mt.description, mt.skills[j])

\* C7: the result is TRUE exactly when matched / (number of non-empty
\* skills) >= threshold, the ratio being 0 when there is no non-empty skill.
C7_ThresholdArithmetic ==
    mt.pc = "done" =>
        LET m == Cardinality({i \in 1..Len(mt.skills) :
                                 EqualsToken(mt.description, mt.skills[i])})
            n == Cardinality({i \in 1..Len(mt.skills) :
                                 Trim(Fold(mt.skills[i])) # <<>>})
        IN  mt.result <=>
                IF n = 0 THEN 0 >= mt.threshold.num
                ELSE m * mt.threshold.den >= mt.threshold.num * n

(***************************************************************************)
(* Properties of the summarizer ladder (SpecSumm).                         *)
(***************************************************************************)

Tiers == <<2500, 1800, 1200, 800, 500>>

\* A generation call succeeded: a response with extractable text.
Succeeded(r) == r.kind = "ok" /\ (Truthy(r.content) \/ Truthy(r.text))

\* A generation call failed: it raised, or its response could not be read.
Failed(r) == r.kind \in {"raise", "malformed"}

TextOf(r) == IF Truthy(r.content) THEN r.content ELSE r.text

\* C3: the attempts are made at the tiers 2500, 1800, 1200, 800, 500 in that
\* order, one per tier; no attempt follows a successful one, and a run that
\* ends on a successful attempt returns that attempt's text.
C3_LadderOrder ==
    /\ Len(sm.calls) <= Len(Tiers)
    /\ \A j \in 1..Len(sm.calls) : sm.calls[j].limit = Tiers[j]
    /\ \A j \in 1..Len(sm.calls) :
          Succeeded(sm.calls[j].resp) =>
              /\ j = Len(sm.calls)
              /\ sm.pc = "done"
              /\ sm.result = TextOf(sm.calls[j].resp)

\* Generation failed at 2500, 1800 and 1200 and succeeded at 800: the 800
\* tier's text is returned and 500 was not tried.
C3_Witness ==
    /\ sm.pc = "done"
    /\ Len(sm.calls) = 4
    /\ \A j \in 1..3 : Failed(sm.calls[j].resp)
    /\ sm.calls[4].limit = 800
    /\ Succeeded(sm.calls[4].resp)
    /\ sm.result = TextOf(sm.calls[4].resp)

\* C4: at each tier the description placed in the prompt is the description
\* truncated to the tier's budget.
C4_ShrinkingContext ==
    \A j \in 1..Len(sm.calls) :
        sm.calls[j].prompt_desc = Min(sm.description, Tiers[j])

\* C5: at most 5 generation calls, no exception reaches the caller, the
\* loop advances one tier per failed call, a finished run returned a
\* string, and five failures return the fallback string.
C5_TotalDegradation ==
    /\ Len(sm.calls) <= 5
    /\ sm.pc # "raised"
    /\ sm.pc = "loop" => sm.i = Len(sm.calls) + 1 /\ sm.i <= 5
    /\ sm.pc = "done" => sm.result # None
    /\ (/\ sm.pc = "done"
        /\ Len(sm.calls) = 5
        /\ \A j \in 1..5 : Failed(sm.calls[j].resp)) => sm.result = Fallback

\* All five tiers failed and the fallback string was returned.
C5_Witness ==
    /\ sm.pc = "done"
    /\ Len(sm.calls) = 5
    /\ \A j \in 1..5 : Failed(sm.calls[j].resp)
    /\ \E j \in 1..5 : sm.calls[j].resp.kind = "malformed"
    /\ sm.result = Fallback

(***************************************************************************)
(* Properties of the caches and of the search path (Spec).                 *)
(***************************************************************************)

\* The last completed fetch_linkedin_jobs call with p's query, when p started.
Prev(p) == hist[p].prev[1]

\* The value fetch_linkedin_jobs returned to p's route.
Ret(p) == hist[p].ret[1]

\* p's fetch_linkedin_jobs call returned, and it started less than TTL after
\* an earlier completed call with the same (keyword, location, limit).
SecondOfPair(p) ==
    /\ hist[p].ret # Nil
    /\ hist[p].prev # Nil
    /\ hist[p].t0 - Prev(p).t0 < CACHE_TTL

\* C1 as stated: any two such calls make exactly one listing fetch in total
\* and return equal results.
C1_Original ==
    \A p \in Procs :
        SecondOfPair(p) =>
            /\ Prev(p).nfetch + hist[p].nfetch = 1
            /\ Ret(p) = Prev(p).ret

\* C1 amended: when the first call made the listing fetch and returned
\* error = None, the second call makes no listing fetch and returns a result
\* equal to the first call's.
C1_CacheHitIdempotence ==
    \A p \in Procs :
        (SecondOfPair(p) /\ Prev(p).nfetch = 1 /\ Prev(p).ret.error = None) =>
            /\ hist[p].nfetch = 0
            /\ Prev(p).nfetch + hist[p].nfetch = 1
            /\ Ret(p) = Prev(p).ret

\* A second call 59 s after a first one that fetched a page with a job: it
\* was served the first call's result.
C1_Witness ==
    \E p \in Procs :
        /\ SecondOfPair(p)
        /\ Prev(p).nfetch = 1
        /\ Prev(p).ret.error = None
        /\ Prev(p).ret.jobs # <<>>
        /\ hist[p].t0 - Prev(p).t0 = CACHE_TTL - 1
        /\ pc[p] = "done"
        /\ res[p] = Some(Prev(p).ret)

\* A reader treats the entry under key as absent at time t.
Absent(cache, key, t) ==
    key \notin DOMAIN cache \/ t - cache[key][1] >= CACHE_TTL

\* The step is p entering a route (requests are served one at a time).
Enters(p, op) ==
    pc[p] \in {"idle", "done"} /\ ncalls' = ncalls + 1 /\ req'[p].op = op

\* C2: in each namespace a read finds the entry absent exactly when there is
\* none or its age is at least CACHE_TTL; a search that finds its entry
\* absent goes on to the listing fetch, one that finds it present returns
\* the stored value without fetching.  (A pass of the card loop is the step
\* that extends hist.seen.)
C2_CacheExpiry ==
    [][\A p \in SeqProcs :
          /\ Enters(p, "search") =>
                LET key == cache_key(req'[p].keyword, req'[p].location, req'[p].limit)
                IN  /\ pc'[p] = "listing" <=> Absent(JOB_CACHE, key, now)
                    /\ ~Absent(JOB_CACHE, key, now) =>
                          /\ pc'[p] = "done"
                          /\ res'[p] = Some(JOB_CACHE[key][2])
                          /\ hist'[p].nfetch = 0
          /\ Enters(p, "details") =>
                /\ pc'[p] = "detail" <=> Absent(DETAIL_CACHE, req'[p].url, now)
                /\ ~Absent(DETAIL_CACHE, req'[p].url, now) =>
                      pc'[p] = "done" /\ res'[p] = Some(DETAIL_CACHE[req'[p].url][2])
          /\ (/\ pc[p] = "card"
              /\ hist'[p].seen # hist[p].seen
              /\ ~loc[p].cards[loc[p].k].broken
              /\ card_href(loc[p].cards[loc[p].k]) # <<>>) =>
                (pc'[p] = "sumfetch" <=>
                    Absent(SUMMARY_CACHE,
                           url_abs(card_href(loc[p].cards[loc[p].k])), now))
       ]_vars

\* A search that found its stored result aged exactly CACHE_TTL and is about
\* to fetch the listing again.
C2_Witness ==
    \E p \in Procs :
        LET key == cache_key(req[p].keyword, req[p].location, req[p].limit)
        IN  /\ pc[p] = "listing"
            /\ key \in DOMAIN JOB_CACHE
            /\ hist[p].t0 - JOB_CACHE[key][1] = CACHE_TTL

\* C10: a listing request that fails (the request raises, or the response
\* has a non-success status) makes the search return an error and no jobs.
C10_FailureSurfaced ==
    \A p \in Procs :
        (/\ hist[p].ret # Nil
         /\ hist[p].outcome # Nil
         /\ \/ hist[p].outcome[1].kind = "raise"
            \/ hist[p].outcome[1].status # 200) =>
            /\ Ret(p).error # None
            /\ Ret(p).jobs = <<>>

(***************************************************************************)
(* Properties of the card loop (SpecExtract).                              *)
(***************************************************************************)

\* The card is a complete candidate: its title and its URL both resolve and
\* its extraction does not fail.
Complete(card) ==
    /\ ~card.broken
    /\ card_title(card) \notin {None, ""}
    /\ card_href(card) # <<>>

\* The positions of the complete candidates of a listing.
CompleteAt(cards) == {j \in 1..Len(cards) : Complete(cards[j])}

\* The position of the n-th complete candidate.
NthComplete(cards, n) ==
    CHOOSE j \in CompleteAt(cards) :
        Cardinality({x \in CompleteAt(cards) : x <= j}) = n

\* C8: a search that fetched and parsed a listing with a limit in 1..25
\* returns Min(limit, number of complete candidates) summaries, the m-th one
\* built from the m-th complete candidate; the cards processed are those up
\* to the limit-th complete one (all of them when there are fewer), and only
\* processed cards have a short-description fetch.
C8_LimitEnforcement ==
    \A p \in Procs :
        (/\ hist[p].ret # Nil
         /\ hist[p].nfetch = 1
         /\ Ret(p).error = None
         /\ req[p].limit \in 1..25) =>
            LET cards == loc[p].cards
                n == Min(req[p].limit, Cardinality(CompleteAt(cards)))
                last == IF n = req[p].limit THEN NthComplete(cards, n) ELSE Len(cards)
            IN  /\ Len(Ret(p).jobs) = n
                /\ \A m \in 1..n :
                      LET c == cards[NthComplete(cards, m)]
                      IN  /\ Ret(p).jobs[m].title = card_title(c)
                          /\ Ret(p).jobs[m].url = url_abs(card_href(c))
                /\ hist[p].seen = [j \in 1..last |-> j]
                /\ \A x \in 1..Len(hist[p].sumlog) : hist[p].sumlog[x] <= last

\* Limit 1 on a page of two complete candidates: one summary, and the
\* second card was not processed.
C8_Witness ==
    \E p \in Procs :
        /\ hist[p].ret # Nil
        /\ hist[p].nfetch = 1
        /\ req[p].limit = 1
        /\ CompleteAt(loc[p].cards) = {1, 2}
        /\ Len(Ret(p).jobs) = 1
        /\ hist[p].seen = <<1>>

(***************************************************************************)
(* Properties of the filtered search (SpecFilter).                         *)
(***************************************************************************)

\* The subsequence of jobs at the positions whose description matches.
RECURSIVE Matching(_, _, _)
Matching(jobs, descs, skills) ==
    IF jobs = <<>> THEN <<>>
    ELSE (IF job_matches_skills(Head(descs), skills, DefaultThreshold)
          THEN <<Head(jobs)>> ELSE <<>>)
         \o Matching(Tail(jobs), Tail(descs), skills)

\* C9: after a successful search, search_user returns jobs_found = number of
\* summaries found, jobs = the summaries whose fetched full description
\* matches the skills, in their order, and jobs_filtered = Len(jobs).
C9_FilteredCounts ==
    \A p \in Procs :
        (/\ pc[p] = "done"
         /\ req[p].op = "filtered"
         /\ Ret(p).error = None) =>
            /\ res[p][1].error = None
            /\ res[p][1].jobs_found = Len(Ret(p).jobs)
            /\ Len(loc[p].descs) = Len(Ret(p).jobs)
            /\ res[p][1].jobs = Matching(Ret(p).jobs, loc[p].descs, req[p].skills)
            /\ res[p][1].jobs_filtered = Len(res[p][1].jobs)
            /\ res[p][1].jobs_filtered <= res[p][1].jobs_found

\* Two jobs found, one of them kept.
C9_Witness ==
    \E p \in Procs :
        /\ pc[p] = "done"
        /\ req[p].op = "filtered"
        /\ Ret(p).error = None
        /\ res[p][1].jobs_found = 2
        /\ res[p][1].jobs_filtered = 1
        /\ res[p][1].jobs = <<Ret(p).jobs[2]>>

(***************************************************************************)
(* Local recovery on the detail paths (SpecRecover).                       *)
(***************************************************************************)

\* The number of complete candidates among the first k cards.
CompleteUpTo(cards, k) == Cardinality({j \in CompleteAt(cards) : j <= k})

\* C11: a short-description fetch that raises leaves its candidate in the
\* search result with summary None, and every candidate of the result has
\* the summary of its own cache read or fetch; in a filtered search a failed
\* detail fetch (raised or non-200) gives that candidate an empty
\* description, every candidate of the search result is still taken through
\* fetch_job_details and the matcher in order, and the response has
\* error = None.
C11_LocalRecovery ==
    \A p \in Procs :
        /\ (/\ hist[p].ret # Nil
            /\ hist[p].nfetch = 1
            /\ Ret(p).error = None) =>
               \A x \in 1..Len(hist[p].sumres) :
                   LET e == hist[p].sumres[x]
                       c == loc[p].cards[e.k]
                       m == CompleteUpTo(loc[p].cards, e.k)
                   IN  Complete(c) =>
                          /\ m <= Len(Ret(p).jobs)
                          /\ Ret(p).jobs[m].title = card_title(c)
                          /\ Ret(p).jobs[m].url = url_abs(card_href(c))
                          /\ Ret(p).jobs[m].summary =
                                 IF e.src = "raise" THEN None ELSE e.summary
        /\ (/\ pc[p] = "done"
            /\ req[p].op = "filtered"
            /\ Ret(p).error = None) =>
               LET dr == hist[p].detres
                   n == Len(Ret(p).jobs)
               IN  /\ res[p][1].error = None
                   /\ Len(dr) = n
                   /\ \A i \in 1..n :
                         /\ dr[i].i = i
                         /\ dr[i].src = "failed" => loc[p].descs[i] = <<>>
                   /\ Len(hist[p].detlog) =
                         Cardinality({i \in 1..n : dr[i].src # "cache"})
                   /\ res[p][1].jobs =
                         Matching(Ret(p).jobs, loc[p].descs, req[p].skills)

\* A filtered search of two candidates: the first one's short-description
\* fetch raised and its detail fetch failed, the second one was fetched,
\* matched and returned.
C11_Witness ==
    \E p \in Procs :
        /\ pc[p] = "done"
        /\ req[p].op = "filtered"
        /\ Ret(p).error = None
        /\ Len(Ret(p).jobs) = 2
        /\ hist[p].sumres[1].src = "raise"
        /\ Ret(p).jobs[1].summary = None
        /\ Ret(p).jobs[2].summary = "short"
        /\ hist[p].detres[1].src = "failed"
        /\ hist[p].detres[2].src = "ok"
        /\ res[p][1].jobs = <<Ret(p).jobs[2]>>

(***************************************************************************)
(* Properties of the locator cascades (SpecCascade).                       *)
(***************************************************************************)

\* The text of the first candidate that yields non-empty text, None when
\* there is none.
FirstNonEmpty(els) ==
    IF \E i \in 1..Len(els) : els[i] # None /\ els[i] # ""
    THEN els[CHOOSE i \in 1..Len(els) :
                 /\ els[i] # None /\ els[i] # ""
                 /\ \A j \in 1..(i - 1) : els[j] = None \/ els[j] = ""]
    ELSE None

\* The texts and the links of the anchor candidates.
AnchorTexts(anchors) ==
    [i \in 1..Len(anchors) |-> IF anchors[i] = Nil THEN None ELSE anchors[i][1].text]

AnchorLinks(anchors) ==
    [i \in 1..Len(anchors) |-> IF anchors[i] = Nil THEN <<>> ELSE anchors[i][1].href]

\* The first non-empty link of the candidates, made absolute.
FirstLink(anchors) ==
    LET links == AnchorLinks(anchors)
        S == {i \in 1..Len(links) : links[i] # <<>>}
    IN  IF S = {} THEN NoUrl
        ELSE LET h == links[CHOOSE i \in S : \A j \in S : i <= j]
             IN  IF startswith(h, http) THEN h ELSE LinkedInHost \o h

\* C12: each extracted field is the text of the first of its candidate
\* locators, in their order, that yields non-empty text (the title's
\* candidates end with the anchors' texts), and is absent exactly when no
\* candidate yields non-empty text.
C12_CascadingResolution ==
    cx.pc = "done" =>
        LET m == cx.markup
        IN  /\ cx.fields.title = FirstNonEmpty(m.titles \o AnchorTexts(m.anchors))
            /\ cx.fields.company = FirstNonEmpty(m.companies)
            /\ cx.fields.location = FirstNonEmpty(m.locs)
            /\ cx.fields.summary = FirstNonEmpty(m.descs)
            /\ cx.fields.url = FirstLink(m.anchors)

(***************************************************************************)
(* Properties of the emitted summaries (SpecCached).                       *)
(***************************************************************************)

\* Every job of the list has a non-empty title and a non-empty URL that
\* starts with http.
WellFormed(jobs) ==
    \A m \in 1..Len(jobs) :
        /\ jobs[m].title # None /\ jobs[m].title # ""
        /\ jobs[m].url # NoUrl
        /\ startswith(jobs[m].url, http)

\* The source link made absolute.
Absolute(link) == IF startswith(link, http) THEN link ELSE LinkedInHost \o link

\* C13: every job of every value a search returns, and of every entry of
\* the search cache, has a non-empty title and a non-empty absolute URL;
\* in a freshly extracted result the m-th URL is the m-th complete card's
\* link, unchanged when it starts with http and host-prefixed otherwise.
C13_EmittedSummaries ==
    /\ \A key \in DOMAIN JOB_CACHE : WellFormed(JOB_CACHE[key][2].jobs)
    /\ \A p \in Procs :
          /\ (res[p] # Nil /\ req[p].op = "search") => WellFormed(res[p][1].jobs)
          /\ hist[p].ret # Nil => WellFormed(Ret(p).jobs)
          /\ (hist[p].ret # Nil /\ hist[p].nfetch = 1) =>
                 \A m \in 1..Len(Ret(p).jobs) :
                     LET c == loc[p].cards[NthComplete(loc[p].cards, m)]
                     IN  Ret(p).jobs[m].url = Absolute(c.anchor[1].href)

\* A result served from the cache with a host-prefixed URL and an
\* unchanged one.
C13_Witness ==
    \E p \in Procs :
        /\ res[p] # Nil
        /\ req[p].op = "search"
        /\ hist[p].nfetch = 0
        /\ Len(res[p][1].jobs) = 2
        /\ res[p][1].jobs[1].url = Href2
        /\ res[p][1].jobs[2].url = LinkedInHost \o Href1

(***************************************************************************)
(* Properties of cache storage (Spec).                                     *)
(***************************************************************************)

\* Every key of the cache stays, and an entry that changes becomes the pair
\* <<now, value>> of one store.
Kept(cache, cacheNext) ==
    /\ DOMAIN cache \subseteq DOMAIN cacheNext
    /\ \A k \in DOMAIN cache : cacheNext[k] # cache[k] => cacheNext[k][1] = now

\* C14: in every step the keys of each cache stay resident and an entry
\* changes only into the pair stored at that instant under its own key by
\* the invocation at the matching store (the search that returns the
\* result, the short-description fetch of that URL, the detail fetch of
\* that URL); the lookups at the start of a call, of a card's pass and of a
\* detail call leave the storage they read as it is, stale entry included.
C14_NoEviction ==
    [][/\ Kept(JOB_CACHE, JOB_CACHE')
       /\ Kept(SUMMARY_CACHE, SUMMARY_CACHE')
       /\ Kept(DETAIL_CACHE, DETAIL_CACHE')
       /\ \A k \in DOMAIN JOB_CACHE' :
             (k \notin DOMAIN JOB_CACHE \/ JOB_CACHE'[k] # JOB_CACHE[k]) =>
                 \E p \in Procs :
                     /\ pc[p] \in {"listing", "card", "sumfetch"}
                     /\ k = cache_key(req[p].keyword, req[p].location, req[p].limit)
                     /\ hist'[p].ret = Some(JOB_CACHE'[k][2])
       /\ \A k \in DOMAIN SUMMARY_CACHE' :
             (k \notin DOMAIN SUMMARY_CACHE \/ SUMMARY_CACHE'[k] # SUMMARY_CACHE[k]) =>
                 \E p \in Procs :
                     /\ pc[p] = "sumfetch"
                     /\ k = url_abs(card_href(loc[p].cards[loc[p].k]))
       /\ \A k \in DOMAIN DETAIL_CACHE' :
             (k \notin DOMAIN DETAIL_CACHE \/ DETAIL_CACHE'[k] # DETAIL_CACHE[k]) =>
                 \E p \in Procs : pc[p] = "detail" /\ k = detail_url(p)
       /\ ncalls' # ncalls =>
             UNCHANGED <<JOB_CACHE, SUMMARY_CACHE, DETAIL_CACHE>>
       /\ (\E p \in Procs : pc[p] = "card" /\ pc'[p] # "card") =>
             UNCHANGED SUMMARY_CACHE
      ]_vars

\* A search found its entry stale and went to the listing fetch; the entry
\* is still resident.
C14_Witness ==
    \E p \in Procs :
        LET k == cache_key(req[p].keyword, req[p].location, req[p].limit)
        IN  /\ pc[p] = "listing"
            /\ k \in DOMAIN JOB_CACHE
            /\ now - JOB_CACHE[k][1] >= CACHE_TTL

(***************************************************************************)
(* Properties of the search-cache key (SpecKeys).                          *)
(***************************************************************************)

\* C15: a search is served from the search cache only when an earlier
\* search with the same keyword, the same location and the same limit has
\* completed, and the result it is served is that search's result.
C15_KeyDistinctness ==
    \A p \in Procs :
        (hist[p].ret # Nil /\ hist[p].nfetch = 0) =>
            /\ hist[p].prev # Nil
            /\ Prev(p).ret = Ret(p)

(***************************************************************************)
(* Properties of concurrent invocations (SpecConc).                        *)
(***************************************************************************)

\* The keys whose entry is new or different after the step.
Written(cache, cacheNext) ==
    {k \in DOMAIN cacheNext : k \notin DOMAIN cache \/ cacheNext[k] # cache[k]}

\* p is the one invocation that takes the step.
OnlyMover(p) ==
    /\ pc'[p] # pc[p] \/ hist'[p] # hist[p]
    /\ \A q \in Procs \ {p} :
          pc'[q] = pc[q] /\ hist'[q] = hist[q] /\ loc'[q] = loc[q] /\ res'[q] = res[q]

\* C16: whenever an entry of a cache appears or changes, one invocation
\* took the step and the entry is the pair of the instant of its store and
\* of its own value (the result it returns, the summary of the card it is
\* on, the details it returns), under the key of its own request; every
\* resident entry is therefore one writer's pair and the last store wins.
C16_NoTornEntries ==
    [][/\ \A k \in Written(JOB_CACHE, JOB_CACHE') :
             \E p \in Procs :
                 /\ OnlyMover(p)
                 /\ k = cache_key(req[p].keyword, req[p].location, req[p].limit)
                 /\ hist'[p].ret # Nil
                 /\ JOB_CACHE'[k] = <<now, hist'[p].ret[1]>>
       /\ \A k \in Written(SUMMARY_CACHE, SUMMARY_CACHE') :
             \E p \in Procs :
                 /\ OnlyMover(p)
                 /\ pc[p] = "sumfetch"
                 /\ k = url_abs(card_href(loc[p].cards[loc[p].k]))
                 /\ LET e == hist'[p].sumres[Len(hist'[p].sumres)]
                    IN  /\ e.k = loc[p].k
                        /\ e.src = "page"
                        /\ SUMMARY_CACHE'[k] = <<now, e.summary>>
       /\ \A k \in Written(DETAIL_CACHE, DETAIL_CACHE') :
             \E p \in Procs :
                 /\ OnlyMover(p)
                 /\ pc[p] = "detail"
                 /\ k = detail_url(p)
                 /\ res'[p] # Nil
                 /\ DETAIL_CACHE'[k] = <<now, res'[p][1]>>
      ]_vars

\* Two overlapping searches with the same query both stored a result, at
\* different instants; the entry is the pair of the one that stored last.
C16_Witness ==
    /\ hist[1].ret # Nil /\ hist[2].ret # Nil
    /\ hist[1].nfetch = 1 /\ hist[2].nfetch = 1
    /\ Query(req[1]) = Query(req[2])
    /\ Ret(1).error = None /\ Ret(2).error = None
    /\ Ret(1) # Ret(2)
    /\ LET k == cache_key(req[1].keyword, req[1].location, req[1].limit)
       IN  JOB_CACHE[k] = <<1, Ret(2)>>

(***************************************************************************)
(* Responses without text (SpecSumm).                                      *)
(***************************************************************************)

\* A response that raised nothing and carries no extractable text.
Textless(r) == r.kind = "ok" /\ ~Truthy(r.content) /\ ~Truthy(r.text)

\* C17: a call answered without extractable text is followed by the call at
\* the next smaller tier (after the last tier, by the fallback string), and
\* a run that made a generation call returns the text of a response or the
\* fallback string.
C17_TextlessIsFailure ==
    /\ \A j \in 1..Len(sm.calls) :
          Textless(sm.calls[j].resp) =>
              \/ j < Len(sm.calls)
              \/ sm.pc = "loop" /\ sm.i = j + 1
              \/ j = Len(Tiers) /\ sm.pc = "done" /\ sm.result = Fallback
    /\ (sm.pc = "done" /\ Len(sm.calls) >= 1) =>
          \/ sm.result = Fallback
          \/ \E j \in 1..Len(sm.calls) :
                Succeeded(sm.calls[j].resp) /\ sm.result = TextOf(sm.calls[j].resp)

(***************************************************************************)
(* Overlapping searches (SpecConc).                                        *)
(***************************************************************************)

\* p and q ran fetch_linkedin_jobs with the same query and overlapped: each
\* started before the other one returned.
Overlapped(p, q) ==
    /\ p # q
    /\ hist[p].ret # Nil /\ hist[q].ret # Nil
    /\ req[p].op = "search" /\ req[q].op = "search"
    /\ Query(req[p]) = Query(req[q])
    /\ hist[p].prev = Nil /\ hist[q].prev = Nil

\* C18: two overlapping searches with the same query make one listing
\* fetch in total.
C18_ConcurrentIdempotence ==
    \A p, q \in Procs :
        Overlapped(p, q) => hist[p].nfetch + hist[q].nfetch = 1

(***************************************************************************)
(* Limits of any size (SpecLimits).                                        *)
(***************************************************************************)

\* C19: whatever int the route passed as limit, the search result holds at
\* most limit summaries (none when the limit is zero or negative), and so
\* does the filtered response.
C19_LimitBound ==
    \A p \in Procs :
        LET cap == IF req[p].limit < 0 THEN 0 ELSE req[p].limit
        IN  /\ hist[p].ret # Nil => Len(Ret(p).jobs) <= cap
            /\ (pc[p] = "done" /\ res[p] # Nil) => Len(res[p][1].jobs) <= cap

(***************************************************************************)
(* A failed search under the filtered search (SpecFilter).                 *)
(***************************************************************************)

\* C20: when fetch_linkedin_jobs returned an error to search_user, the
\* response is that error result (error non-null, no jobs), no
\* fetch_job_details call was made and the matcher was not run.
C20_FilteredFailure ==
    \A p \in Procs :
        (/\ req[p].op = "filtered"
         /\ hist[p].ret # Nil
         /\ Ret(p).error # None) =>
            /\ pc[p] = "done"
            /\ res[p] = Some(Ret(p))
            /\ res[p][1].error # None
            /\ res[p][1].jobs = <<>>
            /\ hist[p].detlog = <<>>
            /\ hist[p].detres = <<>>
            /\ loc[p].descs = <<>>
            /\ loc[p].filtered = <<>>

\* The listing request of a filtered search raised.
C20_Witness ==
    \E p \in Procs :
        /\ req[p].op = "filtered"
        /\ req[p].skills # <<>>
        /\ hist[p].outcome = Some([kind |-> "raise", status |-> 0])
        /\ pc[p] = "done"
        /\ res[p][1].error = "timeout"

(***************************************************************************)
(* Calls that return an error (Spec).                                      *)
(***************************************************************************)

\* The three caches as they are.
Caches == [job |-> JOB_CACHE, summary |-> SUMMARY_CACHE, detail |-> DETAIL_CACHE]

\* p's fetch_linkedin_jobs call returned an error.
SearchFailed(p) ==
    /\ req[p].op \in {"search", "filtered"}
    /\ hist[p].ret # Nil
    /\ Ret(p).error # None

\* p's fetch_job_details call, made for the details route, returned an error.
DetailsFailed(p) ==
    /\ req[p].op = "details"
    /\ pc[p] = "done"
    /\ res[p] # Nil
    /\ "error" \in DOMAIN res[p][1]

\* C21: once a search or a details call has returned an error, the three
\* caches are as the call found them; the next search with the same
\* keyword, location and limit makes the listing request, and a details
\* call for the same URL that follows makes the page request; every entry of
\* the search cache holds a result whose error is None.
C21_FailuresNotCached ==
    /\ [](/\ \A p \in Procs :
                /\ (SearchFailed(p) \/ DetailsFailed(p)) => Caches = hist[p].before
                /\ (/\ req[p].op \in {"search", "filtered"}
                    /\ hist[p].ret # Nil
                    /\ hist[p].prev # Nil
                    /\ Prev(p).ret.error # None) => hist[p].nfetch = 1
           /\ \A k \in DOMAIN JOB_CACHE : JOB_CACHE[k][2].error = None)
    /\ [][\A p \in SeqProcs :
              (/\ DetailsFailed(p)
               /\ Enters(p, "details")
               /\ req'[p].url = req[p].url) => pc'[p] = "detail"
         ]_vars

\* A search whose listing request raised after the result of an earlier
\* search with the same query had gone stale: the stale entry is still
\* there, with the earlier result.
C21_Witness ==
    \E p \in Procs :
        LET key == cache_key(req[p].keyword, req[p].location, req[p].limit)
        IN  /\ SearchFailed(p)
            /\ pc[p] = "done"
            /\ res[p][1].error = "timeout"
            /\ hist[p].prev # Nil
            /\ key \in DOMAIN JOB_CACHE
            /\ JOB_CACHE[key][2] = Prev(p).ret
            /\ Prev(p).ret.jobs # <<>>
            /\ SUMMARY_CACHE # <<>>

(***************************************************************************)
(* The three namespaces (SpecShared).                                      *)
(***************************************************************************)

\* The job page a card links to.
CardUrl(card) == url_abs(card_href(card))

\* The short-summary requests p's call made for the page u.
SummaryFetches(p, u) ==
    Cardinality({j \in 1..Len(hist[p].sumlog) :
                    CardUrl(loc[p].cards[hist[p].sumlog[j]]) = u})

\* The full-detail requests p's call made for the page u.
DetailFetches(p, u) ==
    Cardinality({j \in 1..Len(hist[p].detlog) : hist[p].detlog[j] = u})

\* No entry of the cache was fresh at time t.
Stale(cache, t) == \A k \in DOMAIN cache : t - cache[k][1] >= CACHE_TTL

\* p's call found the three caches cold.
Cold(p) ==
    /\ Stale(hist[p].before.job, hist[p].t0)
    /\ Stale(hist[p].before.summary, hist[p].t0)
    /\ Stale(hist[p].before.detail, hist[p].t0)

\* p's filtered search on cold caches has answered with its candidates.
ColdFilteredDone(p) ==
    /\ req[p].op = "filtered"
    /\ pc[p] = "done"
    /\ hist[p].ret # Nil
    /\ Ret(p).error = None
    /\ Cold(p)

\* No two cards of the listing p fetched link to the same page.
DistinctPages(p) ==
    \A i, j \in 1..Len(loc[p].cards) :
        (i # j /\ CardUrl(loc[p].cards[i]) # NoUrl) =>
            CardUrl(loc[p].cards[i]) # CardUrl(loc[p].cards[j])

\* The step belongs to p's fetch_linkedin_jobs call.
SearchStep(p) ==
    /\ now' = now
    /\ \/ pc[p] \in {"listing", "card", "sumfetch"}
       \/ Enters(p, "search")
       \/ Enters(p, "filtered")

\* The step belongs to a fetch_job_details call of p.
DetailsStep(p) ==
    /\ now' = now
    /\ \/ pc[p] \in {"filter", "detail"}
       \/ Enters(p, "details")

\* The step is the cache lookup of a fetch_job_details call of p for page u.
DetailsRead(p, u) ==
    /\ now' = now
    /\ \/ pc[p] = "filter" /\ u = detail_url(p)
       \/ Enters(p, "details") /\ u = req'[p].url

\* What search and jobDetails write, and what a jobDetails read is served
\* from: a plain search leaves the detail cache as it found it and a details
\* call leaves the other two as it found them; no step of
\* fetch_linkedin_jobs changes the detail cache and no step of
\* fetch_job_details changes the other two; a details read that finds no
\* fresh detail entry goes to the network, a fresh summary entry or not.
Independent ==
    /\ [](\A p \in Procs :
             /\ req[p].op = "search" => DETAIL_CACHE = hist[p].before.detail
             /\ req[p].op = "details" =>
                    /\ JOB_CACHE = hist[p].before.job
                    /\ SUMMARY_CACHE = hist[p].before.summary)
    /\ [][\A p \in SeqProcs :
              /\ SearchStep(p) => DETAIL_CACHE' = DETAIL_CACHE
              /\ DetailsStep(p) =>
                     JOB_CACHE' = JOB_CACHE /\ SUMMARY_CACHE' = SUMMARY_CACHE
              /\ \A u \in DOMAIN SUMMARY_CACHE :
                     (/\ DetailsRead(p, u)
                      /\ fresh(SUMMARY_CACHE, u, now)
                      /\ Absent(DETAIL_CACHE, u, now)) => pc'[p] = "detail"
         ]_vars

\* C22 as stated: the namespaces are independent, and a filtered search on
\* cold caches requests the page of each of its candidates exactly once as
\* a short summary and exactly once as a full detail.
C22_Original ==
    /\ Independent
    /\ [](\A p \in Procs :
             ColdFilteredDone(p) =>
                 \A i \in 1..Len(Ret(p).jobs) :
                     /\ SummaryFetches(p, Ret(p).jobs[i].url) = 1
                     /\ DetailFetches(p, Ret(p).jobs[i].url) = 1)

\* C22 amended: the namespaces are independent, and a filtered search on
\* cold caches requests the page of each of its candidates at least once
\* as a short summary and at least once again as a full detail, and exactly
\* once each when no two cards of the listing link to the same page.
C22_NamespaceIndependence ==
    /\ Independent
    /\ [](\A p \in Procs :
             ColdFilteredDone(p) =>
                 \A i \in 1..Len(Ret(p).jobs) :
                     LET u == Ret(p).jobs[i].url
                     IN  /\ SummaryFetches(p, u) >= 1
                         /\ DetailFetches(p, u) >= 1
                         /\ DistinctPages(p) =>
                                /\ SummaryFetches(p, u) = 1
                                /\ DetailFetches(p, u) = 1)

\* A filtered search on cold caches answered with two candidates on
\* different pages; the summary of each was fetched and stored, and each
\* page was then requested again by fetch_job_details.
C22_Witness ==
    \E p \in Procs :
        /\ ColdFilteredDone(p)
        /\ Len(Ret(p).jobs) = 2
        /\ DistinctPages(p)
        /\ hist[p].before.summary # <<>>
        /\ \A i \in 1..2 :
              /\ Ret(p).jobs[i].summary = "short"
              /\ fresh(SUMMARY_CACHE, Ret(p).jobs[i].url, hist[p].t0)
        /\ Len(hist[p].sumlog) = 2
        /\ Len(hist[p].detlog) = 2

====
